---- MODULE Spec2Model ----
(***************************************************************************)
(* Model of scripts/roland_sav.py: the ServiceCase entity, the JSON-backed *)
(* CaseRepository, the id policy and the four command handlers reached     *)
(* through main().                                                         *)
(*                                                                         *)
(* Timestamps are readings of an integer clock (datetime.utcnow()).  The   *)
(* backing file is a JSON document: its top-level kind and, for iterable   *)
(* kinds, the elements that iterating over the parsed value yields.        *)
(***************************************************************************)
EXTENDS Integers, Sequences, FiniteSets, TLC

\* ------------------------------------------------------------------ bounds
MaxClock == 1
MaxCases == 2

\* ------------------------------------------------------------ input domains
Procs == {1, 2}
\* The process that runs the commands one after another.
P1 == CHOOSE p \in Procs : \A q \in Procs : p <= q

Names == {"Jane Doe"}
RaceNames == {"Jane Doe", "Max"}
Statuses == {"open", "closed"}
NoteTexts == {"fixed"}

\* Optional[str]: <<>> is None, <<s>> is the string s.
None == <<>>
Some(s) == <<s>>
OptNotes == {None} \cup {Some(s) : s \in NoteTexts}
OptStatus == {None} \cup {Some(s) : s \in Statuses}

\* --------------------------------------------------------------- ServiceCase
FieldNames ==
    {"case_id", "customer_name", "contact_email", "product_model",
     "serial_number", "issue_description", "status", "created_at",
     "updated_at", "resolution_notes"}

\* Fields of the dataclass that have no default value.
RequiredFields ==
    {"case_id", "customer_name", "contact_email", "product_model",
     "serial_number", "issue_description"}

\* The class statement: both timestamp defaults are evaluated once, when the
\* class body is executed, at clock readings t1 and t2.
ClassDefaults(t1, t2) == [created_at |-> t1, updated_at |-> t2]

\* ServiceCase(case_id=..., customer_name=..., ...) with the other four
\* fields left to the defaults dflt of the class.
ServiceCase(id, a, dflt) ==
    [case_id           |-> id,
     customer_name     |-> a.customer_name,
     contact_email     |-> a.contact_email,
     product_model     |-> a.product_model,
     serial_number     |-> a.serial_number,
     issue_description |-> a.issue_description,
     status            |-> "open",
     created_at        |-> dflt.created_at,
     updated_at        |-> dflt.updated_at,
     resolution_notes  |-> ""]

DefaultOf(k, dflt) ==
    CASE k = "status"           -> "open"
      [] k = "created_at"       -> dflt.created_at
      [] k = "updated_at"       -> dflt.updated_at
      [] k = "resolution_notes" -> ""
      [] OTHER                  -> ""

Ok(v) == [ok |-> TRUE, val |-> v, exc |-> "none"]
Raise(e) == [ok |-> FALSE, val |-> <<>>, exc |-> e]

\* cls(**data): data must be a mapping whose keys are field names and cover
\* the fields without default; missing defaulted fields take the default.
from_dict(item, dflt) ==
    IF item.kind # "object" THEN Raise("TypeError")
    ELSE IF ~(DOMAIN item.map \subseteq FieldNames) THEN Raise("TypeError")
    ELSE IF ~(RequiredFields \subseteq DOMAIN item.map) THEN Raise("TypeError")
    ELSE Ok([k \in FieldNames |->
               IF k \in DOMAIN item.map THEN item.map[k] ELSE DefaultOf(k, dflt)])

\* Variant: the notes are not written out.
asdict_without_notes(case) ==
    [kind |-> "object", map |-> [k \in FieldNames \ {"resolution_notes"} |-> case[k]]]

\* dataclasses.asdict: the mapping from every field name to its value.
asdict(case) == [kind |-> "object", map |-> [k \in FieldNames |-> case[k]]]

\* Variant: omitted notes clear the stored notes.
update_status_clearing(case, new_status, notes, t) ==
    [case EXCEPT !.status = new_status,
                 !.resolution_notes = IF notes # None THEN notes[1] ELSE "",
                 !.updated_at = t]

\* Variant: the timestamp is refreshed only when something changes.
update_status_lazy(case, new_status, notes, t) ==
    [case EXCEPT !.status = new_status,
                 !.resolution_notes = IF notes # None THEN notes[1] ELSE @,
                 !.updated_at = IF new_status # case.status \/ notes # None
                                THEN t ELSE @]

\* update_status(new_status, notes)
update_status(case, new_status, notes, t) ==
    [case EXCEPT !.status = new_status,
                 !.resolution_notes = IF notes # None THEN notes[1] ELSE @,
                 !.updated_at = t]

\* ------------------------------------------------------------ CaseRepository
Absent == [kind |-> "absent", items |-> <<>>]
JsonList(items) == [kind |-> "list", items |-> items]

\* What iterating over the parsed top-level value yields.
Iterable(f) == f.kind \in {"list", "object", "string"}

load(f, dflt) ==
    IF f.kind = "absent" THEN Ok(<<>>)
    ELSE IF f.kind = "garbage" THEN Raise("JSONDecodeError")
    ELSE IF ~Iterable(f) THEN Raise("TypeError")
    ELSE LET rs == [i \in 1..Len(f.items) |-> from_dict(f.items[i], dflt)]
         IN  IF \E i \in 1..Len(rs) : ~rs[i].ok
             THEN Raise("TypeError")
             ELSE Ok([i \in 1..Len(rs) |-> rs[i].val])

save(cases) == JsonList([i \in 1..Len(cases) |-> asdict(cases[i])])

\* ----------------------------------------------------------------- id policy
SeqMax(s) == CHOOSE m \in {s[i] : i \in 1..Len(s)} : \A j \in 1..Len(s) : s[j] <= m

\* Variant: the id is derived from the number of cases.
_create_case_id_by_count(cases) == Len(cases) + 1

_create_case_id(cases) ==
    IF Len(cases) = 0 THEN 1
    ELSE SeqMax([i \in 1..Len(cases) |-> cases[i].case_id]) + 1

\* -------------------------------------------------------------------- state
VARIABLES
    file,       \* content of the backing file
    now,        \* the clock read by datetime.utcnow()
    defaults,   \* per interpreter: the timestamp defaults of class ServiceCase
    out,        \* what the running command printed or raised; NoOut between commands
    pc,         \* racing processes: position inside handle_add
    cases,      \* racing processes: local variable cases of handle_add
    new_case,   \* racing processes: local variable new_case of handle_add
    held,       \* repository client: the collection it passed to save
    ret,        \* repository client: result of its last load
    rpc         \* repository client: what it did last

vars == <<file, now, defaults, out, pc, cases, new_case, held, ret, rpc>>

NoOut == [cmd |-> "none", msg |-> "none", id |-> 0, rows |-> <<>>, exc |-> "none"]
Printed(c, m, i) == [cmd |-> c, msg |-> m, id |-> i, rows |-> <<>>, exc |-> "none"]
Failed(c, e) == [cmd |-> c, msg |-> "none", id |-> 0, rows |-> <<>>, exc |-> e]

AddArgsOf(names) ==
    [customer_name : names, contact_email : {"jane@x.com"},
     product_model : {"TD-50"}, serial_number : {"SN123"},
     issue_description : {"No sound from pads"}]

AddArgs == AddArgsOf(Names)
RaceArgs == AddArgsOf(RaceNames)

StoredCase(id, name, st) ==
    [case_id |-> id, customer_name |-> name, contact_email |-> "jane@x.com",
     product_model |-> "TD-50", serial_number |-> "SN123",
     issue_description |-> "No sound from pads", status |-> st,
     created_at |-> 0, updated_at |-> 0, resolution_notes |-> ""]

NoCase == StoredCase(0, "", "")

CommonInit ==
    /\ now = 0
    /\ defaults = [p \in Procs |-> ClassDefaults(0, 0)]
    /\ out = NoOut
    /\ pc = [p \in Procs |-> "ready"]
    /\ cases = [p \in Procs |-> <<>>]
    /\ new_case = [p \in Procs |-> NoCase]
    /\ held = <<>>
    /\ ret = Ok(<<>>)
    /\ rpc = "idle"

\* ------------------------------------------------------------------- clock
Tick ==
    /\ now < MaxClock
    /\ now' = now + 1
    /\ UNCHANGED <<file, defaults, out, pc, cases, new_case, held, ret, rpc>>

\* A new interpreter executes the module: the class statement reads the
\* clock twice, once per timestamp default.
ImportModule(p) ==
    \E t2 \in {now, now + 1} :
        /\ t2 <= MaxClock
        /\ defaults' = [defaults EXCEPT ![p] = ClassDefaults(now, t2)]
        /\ now' = t2
        /\ UNCHANGED <<file, out, pc, cases, new_case, held, ret, rpc>>

\* ----------------------------------------------------------------- handlers
\* A handler's effect: the backing file it leaves and what it printed/raised.
Effect(f, o) == [file |-> f, out |-> o]

handle_init(f) ==
    IF f.kind # "absent" THEN Effect(f, Printed("init", "exists", 0))
    ELSE Effect(save(<<>>), Printed("init", "created", 0))

\* Variant: the new case is inserted in front.
handle_add_in_front(f, a, dflt) ==
    LET r == load(f, dflt) IN
    IF ~r.ok THEN Effect(f, Failed("add", r.exc))
    ELSE LET nc == ServiceCase(_create_case_id(r.val), a, dflt)
         IN  Effect(save(<<nc>> \o r.val), Printed("add", "added", nc.case_id))

handle_add(f, a, dflt) ==
    LET r == load(f, dflt) IN
    IF ~r.ok THEN Effect(f, Failed("add", r.exc))
    ELSE LET nc == ServiceCase(_create_case_id(r.val), a, dflt)
         IN  Effect(save(Append(r.val, nc)), Printed("add", "added", nc.case_id))

Row(c) == <<c.case_id, c.status, c.customer_name, c.product_model, c.updated_at>>

handle_list(f, status, dflt) ==
    LET r == load(f, dflt) IN
    IF ~r.ok THEN Effect(f, Failed("list", r.exc))
    ELSE LET Keep(c) == status = None \/ status[1] = c.status
             filtered_cases == SelectSeq(r.val, Keep)
         IN  IF Len(filtered_cases) = 0
             THEN Effect(f, Printed("list",
                     IF status # None THEN "none_with_status" ELSE "none", 0))
             ELSE Effect(f, [Printed("list", "table", 0) EXCEPT
                     !.rows = [i \in 1..Len(filtered_cases) |-> Row(filtered_cases[i])]])

\* Index of the first case the loop of handle_update stops at, 0 if none.
FirstMatch(cs, id) ==
    IF \E i \in 1..Len(cs) : cs[i].case_id = id
    THEN CHOOSE i \in 1..Len(cs) :
            /\ cs[i].case_id = id
            /\ \A j \in 1..(i - 1) : cs[j].case_id # id
    ELSE 0

\* Variant: an unknown id is an error.
handle_update_raising(f, id, status, notes, dflt, t) ==
    LET r == load(f, dflt) IN
    IF ~r.ok THEN Effect(f, Failed("update", r.exc))
    ELSE LET i == FirstMatch(r.val, id) IN
         IF i = 0 THEN Effect(f, Failed("update", "KeyError"))
         ELSE LET cs == [r.val EXCEPT ![i] = update_status(@, status, notes, t)]
              IN  Effect(save(cs), Printed("update", "updated", id))

handle_update(f, id, status, notes, dflt, t) ==
    LET r == load(f, dflt) IN
    IF ~r.ok THEN Effect(f, Failed("update", r.exc))
    ELSE LET i == FirstMatch(r.val, id) IN
         IF i = 0 THEN Effect(f, Printed("update", "not_found", id))
         ELSE LET cs == [r.val EXCEPT ![i] = update_status(@, status, notes, t)]
              IN  Effect(save(cs), Printed("update", "updated", id))

\* Number of positional parameters of the function set_defaults(func=...)
\* registers for each sub-command.
HandlerArity(cmd) == IF cmd = "init" THEN 1 ELSE 2

\* main(): args.func(args, repo) passes two positional arguments.
main(cmd, a, f, dflt, t) ==
    IF HandlerArity(cmd) # 2 THEN Effect(f, Failed(cmd, "TypeError"))
    ELSE CASE cmd = "init"   -> handle_init(f)
           [] cmd = "add"    -> handle_add(f, a, dflt)
           [] cmd = "list"   -> handle_list(f, a.status, dflt)
           [] cmd = "update" -> handle_update(f, a.case_id, a.status,
                                              a.resolution_notes, dflt, t)

ListArgs == [status : OptStatus]
UpdateArgs == [case_id : 1..(MaxCases + 1), status : Statuses, resolution_notes : OptNotes]

NumStored(f) == IF f.kind = "list" THEN Len(f.items) ELSE 0

\* One command runs from start to end; the interpreter is idle before it.
Run(e) ==
    /\ out = NoOut
    /\ file' = e.file
    /\ out' = e.out
    /\ UNCHANGED <<now, defaults, pc, cases, new_case, held, ret, rpc>>

MainInit == Run(main("init", None, file, defaults[P1], now))

MainAdd(a) ==
    /\ NumStored(file) < MaxCases
    /\ Run(main("add", a, file, defaults[P1], now))

MainList(a) == Run(main("list", a, file, defaults[P1], now))

MainUpdate(a) == Run(main("update", a, file, defaults[P1], now))

\* handle_init(repo) called directly, not through main().
CallHandleInit == Run(handle_init(file))

\* The command is over: main() has returned or the exception has ended it.
Return ==
    /\ out # NoOut
    /\ out' = NoOut
    /\ UNCHANGED <<file, now, defaults, pc, cases, new_case, held, ret, rpc>>

\* ------------------------------------------- single process, one command at a time
InitFiles ==
    {Absent,
     save(<<>>),
     save(<<StoredCase(2, "Jane Doe", "open")>>),
     save(<<StoredCase(3, "Jane Doe", "open"), StoredCase(1, "Max", "closed")>>)}

Init == CommonInit /\ file \in InitFiles

\* The process has executed the module once (CommonInit) and then runs
\* commands one after another; the clock advances between commands.
Next ==
    \/ out = NoOut /\ Tick
    \/ Return
    \/ MainInit
    \/ CallHandleInit
    \/ \E a \in AddArgs : MainAdd(a)
    \/ \E a \in ListArgs : MainList(a)
    \/ \E a \in UpdateArgs : MainUpdate(a)

Spec == Init /\ [][Next]_vars

\* The same process against a store that holds no case yet.
FreshInit == CommonInit /\ file \in {Absent, save(<<>>)}

FreshSpec == FreshInit /\ [][Next]_vars

\* ------------------------------------ two processes, each running one add
\* Each process is its own interpreter.  handle_add touches the backing file
\* at load (line 80) and at save (line 90); save opens the file for writing,
\* which truncates it, and writes the document afterwards.
Truncated == [kind |-> "garbage", items |-> <<>>]

\* A document written from offset 0 over a longer one leaves the tail of the
\* longer one behind: not a JSON document.
Overlaid == [kind |-> "garbage", items |-> <<[kind |-> "string", map |-> <<>>]>>]

RaceImport(p) ==
    /\ pc[p] = "ready"
    /\ ImportModule(p)

RaceAddLoad(p, a) ==
    /\ pc[p] = "ready"
    /\ LET r == load(file, defaults[p]) IN
       IF ~r.ok
       THEN /\ pc' = [pc EXCEPT ![p] = "failed"]
            /\ out' = Failed("add", r.exc)
            /\ UNCHANGED <<cases, new_case>>
       ELSE /\ cases' = [cases EXCEPT ![p] = r.val]
            /\ new_case' = [new_case EXCEPT ![p] =
                               ServiceCase(_create_case_id(r.val), a, defaults[p])]
            /\ pc' = [pc EXCEPT ![p] = "loaded"]
            /\ UNCHANGED out
    /\ UNCHANGED <<file, now, defaults, held, ret, rpc>>

\* Variant: the collection is read again right before it is written.
RaceAddOpenReloading(p) ==
    /\ pc[p] = "loaded"
    /\ cases' = [cases EXCEPT ![p] =
                    Append(IF file.kind = "list" THEN load(file, defaults[p]).val ELSE @,
                           new_case[p])]
    /\ file' = Truncated
    /\ pc' = [pc EXCEPT ![p] = "writing"]
    /\ UNCHANGED <<now, defaults, out, new_case, held, ret, rpc>>

RaceAddOpen(p) ==
    /\ pc[p] = "loaded"
    /\ cases' = [cases EXCEPT ![p] = Append(@, new_case[p])]
    /\ file' = Truncated
    /\ pc' = [pc EXCEPT ![p] = "writing"]
    /\ UNCHANGED <<now, defaults, out, new_case, held, ret, rpc>>

RaceAddSave(p) ==
    /\ pc[p] = "writing"
    /\ \/ file' = save(cases[p])
       \/ file # Truncated /\ file' = Overlaid
    /\ out' = Printed("add", "added", new_case[p].case_id)
    /\ pc' = [pc EXCEPT ![p] = "done"]
    /\ UNCHANGED <<now, defaults, cases, new_case, held, ret, rpc>>

RaceNext ==
    \/ Tick
    \/ \E p \in Procs : RaceImport(p)
    \/ \E p \in Procs : \E a \in RaceArgs : RaceAddLoad(p, a)
    \/ \E p \in Procs : RaceAddOpen(p)
    \/ \E p \in Procs : RaceAddSave(p)

RaceSpec == Init /\ [][RaceNext]_vars

\* ---------------------------------------------- a client of CaseRepository
Entities ==
    {StoredCase(1, "Jane Doe", "open"),
     StoredCase(2, "Max", "closed"),
     [StoredCase(2, "Jane Doe", "in_progress") EXCEPT
         !.created_at = 0, !.updated_at = MaxClock, !.resolution_notes = "fixed"],
     [StoredCase(1, "", "") EXCEPT
         !.contact_email = "", !.product_model = "", !.serial_number = "",
         !.issue_description = "", !.created_at = MaxClock]}

RECURSIVE SeqsUpTo(_, _)
SeqsUpTo(S, n) ==
    IF n = 0 THEN {<<>>}
    ELSE LET shorter == SeqsUpTo(S, n - 1)
         IN  shorter \cup {Append(s, e) : s \in shorter, e \in S}

Collections == SeqsUpTo(Entities, MaxCases)

Scalar(k) == [kind |-> k, map |-> <<>>]
Without(d, k) == [kind |-> "object", map |-> [j \in DOMAIN d.map \ {k} |-> d.map[j]]]
With(d, k, v) ==
    [kind |-> "object",
     map |-> [j \in DOMAIN d.map \cup {k} |-> IF j = k THEN v ELSE d.map[j]]]

Rec1 == asdict(StoredCase(1, "Jane Doe", "open"))

OtherFiles ==
    {[kind |-> "garbage", items |-> <<>>],
     [kind |-> "null", items |-> <<>>],
     [kind |-> "number", items |-> <<>>],
     [kind |-> "object", items |-> <<>>],
     [kind |-> "object", items |-> <<Scalar("string")>>],
     [kind |-> "string", items |-> <<>>],
     [kind |-> "string", items |-> <<Scalar("string")>>],
     JsonList(<<Scalar("number")>>),
     JsonList(<<Rec1, Scalar("null")>>),
     JsonList(<<Without(Rec1, "case_id")>>),
     JsonList(<<Rec1, Without(Rec1, "issue_description")>>),
     JsonList(<<Without(Rec1, "status")>>),
     JsonList(<<Without(Rec1, "updated_at")>>),
     JsonList(<<With(Rec1, "priority", "high")>>)}

AnyFiles == {Absent} \cup {save(X) : X \in Collections} \cup OtherFiles

RepoSave(X) ==
    /\ file' = save(X)
    /\ held' = X
    /\ ret' = Ok(<<>>)
    /\ rpc' = "saved"
    /\ UNCHANGED <<now, defaults, out, pc, cases, new_case>>

RepoLoad ==
    /\ rpc \in {"idle", "saved"}
    /\ ret' = load(file, defaults[P1])
    /\ rpc' = IF rpc = "saved" THEN "reloaded" ELSE "loaded"
    /\ UNCHANGED <<file, now, defaults, out, pc, cases, new_case, held>>

\* The file is replaced from outside (synced, edited, deleted).
Replace(f) ==
    /\ file' = f
    /\ held' = <<>>
    /\ ret' = Ok(<<>>)
    /\ rpc' = "idle"
    /\ UNCHANGED <<now, defaults, out, pc, cases, new_case>>

RepoInit == CommonInit /\ file \in AnyFiles

RepoNext ==
    \/ \E X \in Collections : RepoSave(X)
    \/ RepoLoad
    \/ \E f \in AnyFiles : Replace(f)

RepoSpec == RepoInit /\ [][RepoNext]_vars

\* ================================================================== claims
StoredIds(f) == [i \in 1..NumStored(f) |-> f.items[i].map.case_id]
HasId(f, id) == \E i \in 1..NumStored(f) : StoredIds(f)[i] = id
\* Position of the first stored record carrying id.
IndexOf(f, id) ==
    CHOOSE i \in 1..NumStored(f) :
        StoredIds(f)[i] = id /\ \A j \in 1..(i - 1) : StoredIds(f)[j] # id
LastStored(f) == f.items[NumStored(f)].map

\* The step is the command run with arguments a (the command name and the
\* id that both messages of update print are compared first, which settles
\* most steps at once).
AddRan(a) == out'.cmd = "add" /\ MainAdd(a)
UpdateRan(a) ==
    /\ out'.cmd = "update"
    /\ out'.exc = "none" => out'.id = a.case_id
    /\ MainUpdate(a)

\* C1: started from an absent file or from a file with pairwise distinct
\* ids, after any sequence of commands of one process the case_id values in
\* the backing file are pairwise distinct.
C1_CaseIdsUnique ==
    \A i, j \in 1..NumStored(file) :
        i # j => StoredIds(file)[i] # StoredIds(file)[j]

C1_Witness ==
    /\ out.cmd = "add" /\ out.msg = "added"
    /\ StoredIds(file) = <<2, 3>>

\* What one add step with arguments a does to the stored collection.
C2_AddAppendsNextId(a) ==
    (AddRan(a) /\ out'.exc = "none") =>
        /\ NumStored(file') = NumStored(file) + 1
        /\ SubSeq(file'.items, 1, NumStored(file)) = file.items
        /\ LastStored(file').case_id = NumStored(file) + 1
        /\ LastStored(file').status = "open"
        /\ LastStored(file').customer_name = a.customer_name
        /\ out'.msg = "added"
        /\ out'.id = NumStored(file) + 1

\* C2: on a store that starts empty the stored ids are always 1, 2, ..., N
\* in this order, and every add appends one case with status "open" and the
\* next id behind the unchanged cases stored before.
C2_SequentialAdds ==
    /\ [](StoredIds(file) = [i \in 1..NumStored(file) |-> i])
    /\ [][\A a \in AddArgs : C2_AddAppendsNextId(a)]_vars

C2_Witness ==
    /\ out.cmd = "add" /\ out.id = MaxCases
    /\ StoredIds(file) = [i \in 1..MaxCases |-> i]
    /\ file.items[1].map.status = "closed"

\* C3: two processes that both finished add and reported the same id loaded
\* the same snapshot, and a backing file that is still a readable list holds
\* the list of one of them: that snapshot plus one of the two new cases.
C3_LostAdd ==
    \A p, q \in Procs :
        (p # q /\ pc[p] = "done" /\ pc[q] = "done"
            /\ new_case[p].case_id = new_case[q].case_id) =>
            /\ SubSeq(cases[p], 1, Len(cases[p]) - 1)
                 = SubSeq(cases[q], 1, Len(cases[q]) - 1)
            /\ file.kind = "list" =>
                 /\ file \in {save(cases[p]), save(cases[q])}
                 /\ Cardinality({i \in 1..NumStored(file) :
                        StoredIds(file)[i] = new_case[p].case_id}) = 1

C3_Witness ==
    \E p, q \in Procs :
        /\ p # q /\ pc[p] = "done" /\ pc[q] = "done"
        /\ new_case[p].case_id = new_case[q].case_id
        /\ new_case[p] # new_case[q]
        /\ file = save(cases[q])
        /\ \A i \in 1..NumStored(file) : file.items[i] # asdict(new_case[p])

\* One update step with arguments a whose id is not stored.
C4_UpdateStep(a) ==
    (UpdateRan(a) /\ ~HasId(file, a.case_id)) =>
        /\ file' = file
        /\ out'.msg = "not_found"
        /\ out'.exc = "none"

\* C4: update with an id that no stored case has leaves the backing file as
\* it was, reports "not found" and raises nothing.
C4_UpdateUnknownId == [][\A a \in UpdateArgs : C4_UpdateStep(a)]_vars

C4_Witness ==
    /\ out.cmd = "update" /\ out.msg = "not_found"
    /\ NumStored(file) >= 1
    /\ ~HasId(file, out.id)

\* One update step with arguments a whose id is stored: what it keeps.
C5_UpdateStep(a) ==
    (UpdateRan(a) /\ HasId(file, a.case_id)) =>
        LET i == IndexOf(file, a.case_id) IN
        /\ NumStored(file') = NumStored(file)
        /\ \A j \in 1..NumStored(file) : j # i => file'.items[j] = file.items[j]
        /\ \A k \in FieldNames \ {"status", "updated_at", "resolution_notes"} :
               file'.items[i].map[k] = file.items[i].map[k]
        /\ a.resolution_notes = None =>
               file'.items[i].map.resolution_notes = file.items[i].map.resolution_notes

\* C5: update with the id of a stored case keeps the number and order of
\* cases, every other case, and of the target every field except status,
\* updated_at and, when notes are supplied, resolution_notes.
C5_UpdateFrame == [][\A a \in UpdateArgs : C5_UpdateStep(a)]_vars

C5_Witness ==
    /\ out.cmd = "update" /\ out.msg = "updated"
    /\ NumStored(file) = 2
    /\ \E i \in 1..2 :
          /\ StoredIds(file)[i] = out.id
          /\ file.items[i].map.resolution_notes = "fixed"
          /\ file.items[i].map.status = "open"

\* C6: init run through main() fails in no case, creates a store of 0 cases
\* where no file exists and leaves an existing file unchanged.
C6_InitThroughMain ==
    [][MainInit =>
         /\ out'.exc = "none"
         /\ file.kind = "absent" => (file'.kind = "list" /\ NumStored(file') = 0)
         /\ file.kind # "absent" => file' = file]_vars

\* C7: load on a file that exists and is not a list of records with all
\* required fields raises; it never returns a collection.
Record(item) == item.kind = "object" /\ RequiredFields \subseteq DOMAIN item.map
ExpectedDocument(f) ==
    f.kind = "list" /\ \A i \in 1..Len(f.items) : Record(f.items[i])

C7_LoadRaisesOnBadFile ==
    (rpc = "loaded" /\ file.kind # "absent" /\ ~ExpectedDocument(file)) => ~ret.ok

\* C8: load after save(X) returns X, whatever the file held before, and load
\* without a file returns the empty collection.
C8_SaveLoadRoundTrip ==
    /\ rpc = "reloaded" => ret = Ok(held)
    /\ (rpc = "loaded" /\ file.kind = "absent") => ret = Ok(<<>>)

C8_Witness ==
    /\ rpc = "reloaded"
    /\ Len(held) = 2
    /\ held[1].resolution_notes = "fixed"
    /\ held[2].customer_name = ""
    /\ ret.ok

\* One add step with arguments a: the timestamps of the case it stores.
C9_AddStep(a) ==
    (AddRan(a) /\ out'.msg = "added") =>
        /\ LastStored(file').created_at = now
        /\ LastStored(file').updated_at = now

\* C9: a case built by add has created_at and updated_at equal to the clock
\* at the time of that add.
C9_FreshTimestamps == [][\A a \in AddArgs : C9_AddStep(a)]_vars

\* One update step with arguments a whose id is stored: what it writes.
C10_UpdateStep(a) ==
    (UpdateRan(a) /\ HasId(file, a.case_id)) =>
        LET i == IndexOf(file, a.case_id)
            before == file.items[i].map
            after == file'.items[i].map
        IN  /\ after.status = a.status
            /\ after.updated_at = now
            /\ before.updated_at < now => after.updated_at > before.updated_at
            /\ after.created_at = before.created_at

\* C10: every update of a stored case sets its status to the new status and
\* updated_at to the clock of the call, strictly later than before when the
\* clock has advanced since, and keeps created_at.
C10_UpdateRefreshes == [][\A a \in UpdateArgs : C10_UpdateStep(a)]_vars

C10_Witness ==
    /\ out.cmd = "update" /\ out.msg = "updated"
    /\ \E i \in 1..NumStored(file) :
          /\ StoredIds(file)[i] = out.id
          /\ file.items[i].map.status = "open"
          /\ file.items[i].map.resolution_notes = ""
          /\ file.items[i].map.updated_at > file.items[i].map.created_at
          /\ file.items[i].map.updated_at > defaults[P1].updated_at

====
